---- MODULE Spec2Model ----
(***************************************************************************)
(* Model of the German-to-English interactive translator                   *)
(* (src/german_to_eng_translator): the Streamlit page's session state and  *)
(* its handlers (app.py), the translation client (translation_api.py),     *)
(* the speech synthesis client (tts_utils.py) and the tokenizer            *)
(* (word_tokenizer.py).                                                    *)
(*                                                                         *)
(* Representation of Python values.  A str is a sequence of one-character  *)
(* strings ("Hund" is <<"H","u","n","d">>, "" is <<>>).  A str whose       *)
(* characters no code inspects (a MIME type, an engine name) is a sequence *)
(* of pieces (<<"gTTS", " (Fallback)">>).  None is a one-element sequence  *)
(* holding a piece that is no character, so it differs from every str and  *)
(* from every pair.                                                        *)
(***************************************************************************)
EXTENDS Naturals, Sequences, FiniteSets

VARIABLES
    \* st.session_state (app.py:46-63)
    input_sentence,
    word_translation_result,
    sentence_translation_result,
    active_translation_word,
    german_example_sentence_result,
    english_example_translation_result,
    show_word_buttons,
    tts_audio_bytes,
    tts_audio_format,
    \* module globals of tts_utils.py, fixed once the module is imported
    TTS_ENGINE,
    hf_libraries_installed,
    hf_model_loaded,
    gtts_installed,
    \* position of the running handler; the handler that ran last, its
    \* arguments, part of the session state it started from, and the client
    \* calls it has made so far
    pc,
    last,
    req,
    prev,
    calls,
    \* what a client function called on its own (with req its arguments) gave
    res

vars == <<input_sentence, word_translation_result, sentence_translation_result,
          active_translation_word, german_example_sentence_result,
          english_example_translation_result, show_word_buttons,
          tts_audio_bytes, tts_audio_format,
          TTS_ENGINE, hf_libraries_installed, hf_model_loaded, gtts_installed,
          pc, last, req, prev, calls, res>>

session == <<input_sentence, word_translation_result, sentence_translation_result,
             active_translation_word, german_example_sentence_result,
             english_example_translation_result, show_word_buttons,
             tts_audio_bytes, tts_audio_format>>

tts_globals == <<TTS_ENGINE, hf_libraries_installed, hf_model_loaded, gtts_installed>>

-----------------------------------------------------------------------------
(* Bounds *)

\* longest sentence typed into the text area
MaxSentenceLen == 3

\* longest sentence handed to the tokenizer on its own
MaxTokenizedLen == 5

-----------------------------------------------------------------------------
(* Python values *)

None == <<"None">>

\* Python truthiness of a value that is None, a str, bytes or a tuple
Truthy(x) == x # None /\ x # <<>>

\* characters a sentence is typed from: two letters and a separator
Alphabet == {"a", "b", " "}

\* characters that are not \w of the re module, among those used here
NonWordChars == {" ", ".", ",", "!", "?", "'", ":", "[", "]", "(", ")", "-"}

\* \w of the re module: letters, digits and the underscore
IsWordChar(c) == c \notin NonWordChars

\* str.isspace() of one character
IsSpace(c) == c = " "

RECURSIVE SeqsUpTo(_, _)
SeqsUpTo(S, n) ==
    IF n = 0 THEN {<<>>}
    ELSE LET shorter == SeqsUpTo(S, n - 1)
         IN  shorter \cup {Append(s, c) : s \in shorter, c \in S}

\* `sub in s` of two str
Contains(s, sub) ==
    \E i \in 0..Len(s) :
        /\ i + Len(sub) <= Len(s)
        /\ SubSeq(s, i + 1, i + Len(sub)) = sub

\* s.split(sep)[0]: what precedes the first occurrence of sep, or all of s
SplitFirst(s, sep) ==
    IF Contains(s, sep)
    THEN LET i == CHOOSE k \in 0..Len(s) :
                     /\ k + Len(sep) <= Len(s)
                     /\ SubSeq(s, k + 1, k + Len(sep)) = sep
                     /\ \A j \in 0..(k - 1) : SubSeq(s, j + 1, j + Len(sep)) # sep
         IN  SubSeq(s, 1, i)
    ELSE s

\* s.strip()
RECURSIVE LStrip(_)
LStrip(s) == IF s # <<>> /\ IsSpace(Head(s)) THEN LStrip(Tail(s)) ELSE s

RECURSIVE RStrip(_)
RStrip(s) ==
    IF s # <<>> /\ IsSpace(s[Len(s)]) THEN RStrip(SubSeq(s, 1, Len(s) - 1)) ELSE s

Strip(s) == RStrip(LStrip(s))

\* c.lower() of one character
LowerChar(c) ==
    CASE c = "A" -> "a" [] c = "B" -> "b" [] c = "D" -> "d" [] c = "H" -> "h"
      [] OTHER -> c

\* word.lower()
Lower(w) == [i \in 1..Len(w) |-> LowerChar(w[i])]

-----------------------------------------------------------------------------
(* word_tokenizer.py *)

\* re.split(r'(\b\w+\b)', s) from position i on: the text before the next
\* match, the match (a maximal run of word characters), and so on; with no
\* further match, the rest.  Empty pieces are kept, as re.split keeps them.
RECURSIVE ReSplitFrom(_, _)
ReSplitFrom(s, i) ==
    IF \E j \in i..Len(s) : IsWordChar(s[j])
    THEN LET j == CHOOSE m \in i..Len(s) :
                     IsWordChar(s[m]) /\ \A n \in i..(m - 1) : ~IsWordChar(s[n])
             k == CHOOSE m \in j..Len(s) :
                     /\ \A n \in j..m : IsWordChar(s[n])
                     /\ (m = Len(s) \/ ~IsWordChar(s[m + 1]))
         IN  <<SubSeq(s, i, j - 1), SubSeq(s, j, k)>> \o ReSplitFrom(s, k + 1)
    ELSE <<SubSeq(s, i, Len(s))>>

NonEmpty(part) == part # <<>>

\* the split without the filter of line 34
split_sentence_with_delimiters_KeepsEmpty(sentence) ==
    IF ~Truthy(sentence) THEN <<>>
    ELSE ReSplitFrom(sentence, 1)

split_sentence_with_delimiters(sentence) ==
    IF ~Truthy(sentence) THEN <<>>
    ELSE SelectSeq(ReSplitFrom(sentence, 1), NonEmpty)

-----------------------------------------------------------------------------
(* app.py: the word buttons *)

\* re.search(r"\w", part)
HasWordChar(part) == \E i \in 1..Len(part) : IsWordChar(part[i])

\* the loop with the words themselves as the tracker's keys
RECURSIVE DedupWords_CaseSensitive(_, _)
DedupWords_CaseSensitive(words, n) ==
    IF n = 0 THEN <<>>
    ELSE LET before == DedupWords_CaseSensitive(words, n - 1)
             word   == words[n]
         IN  IF \E i \in 1..Len(before) : before[i] = word
             THEN before
             ELSE Append(before, word)

\* the loop of app.py:214-218 over the first n words
RECURSIVE DedupWords(_, _)
DedupWords(words, n) ==
    IF n = 0 THEN <<>>
    ELSE LET before == DedupWords(words, n - 1)
             word   == words[n]
         IN  IF \E i \in 1..Len(before) : Lower(before[i]) = Lower(word)
             THEN before
             ELSE Append(before, word)

display_words_list(current_sentence) ==
    LET parts == split_sentence_with_delimiters(current_sentence)
        words_with_original_case == SelectSeq(parts, HasWordChar)
    IN  DedupWords(words_with_original_case, Len(words_with_original_case))

-----------------------------------------------------------------------------
(* translation_api.py *)

MYMEMORY_WARNING ==
    <<"M","Y","M","E","M","O","R","Y"," ","W","A","R","N","I","N","G">>

NMT_MARK == <<" ","N","M","T">>

MT_MARK == <<" ","M","T"," ">>

\* The classes an exception raised inside translate_text's try block is an
\* instance of (requests.exceptions and the builtins).
ExcClasses(exc) ==
    CASE exc = "Timeout"         -> {"Timeout", "RequestException", "Exception"}
      [] exc = "ConnectionError" -> {"ConnectionError", "RequestException", "Exception"}
      [] exc = "HTTPError"       -> {"HTTPError", "RequestException", "Exception"}
      [] exc = "JSONDecodeError" -> {"JSONDecodeError", "ValueError", "Exception"}
      [] exc = "AttributeError"  -> {"AttributeError", "Exception"}
      [] OTHER                   -> {exc}

\* the except clauses of translate_text, in order (translation_api.py:47-54)
ExceptClauses == <<"Timeout", "RequestException", "ValueError", "Exception">>

\* the post-processing without the test of line 36
StripWarning_Always(translated_text) ==
    Strip(SplitFirst(SplitFirst(translated_text, NMT_MARK), MT_MARK))

\* the translatedText post-processing of translation_api.py:36-40
StripWarning(translated_text) ==
    IF Contains(translated_text, MYMEMORY_WARNING)
    THEN Strip(SplitFirst(SplitFirst(translated_text, NMT_MARK), MT_MARK))
    ELSE translated_text

\* The try block of translate_text on what the HTTP exchange does: the
\* exception it raises ("none" when it returns), the value it returns, and
\* whether `response` was bound when it raised.
TryBlock(http) ==
    CASE http.kind \in {"Timeout", "ConnectionError"} ->
            [exc |-> http.kind, value |-> None, response_bound |-> FALSE]
      [] http.kind \in {"HTTPError", "JSONDecodeError"} ->
            [exc |-> http.kind, value |-> None, response_bound |-> TRUE]
      [] http.kind = "json" /\ http.shape \in {"not_object", "null_response_data"} ->
            \* data.get / None.get raise AttributeError
            [exc |-> "AttributeError", value |-> None, response_bound |-> TRUE]
      [] http.kind = "json" /\ http.shape \in {"no_response_data", "no_translated_text"} ->
            [exc |-> "none", value |-> None, response_bound |-> TRUE]
      [] OTHER ->
            [exc |-> "none",
             value |-> IF Truthy(http.text) THEN StripWarning(http.text) ELSE None,
             response_bound |-> TRUE]

\* the except clauses without the last one (translation_api.py:53-54)
AfterExcept_NoCatchAll(exc, response_bound) ==
    IF "Timeout" \in ExcClasses(exc) \/ "RequestException" \in ExcClasses(exc)
    THEN "none"
    ELSE IF "ValueError" \in ExcClasses(exc)
         THEN IF response_bound THEN "none" ELSE "UnboundLocalError"
         ELSE exc

\* An exception reaching the except clauses: the first clause naming one of
\* its classes handles it, and the ValueError clause reads response.text.
\* "none" when it is handled, else the exception that escapes.
AfterExcept(exc, response_bound) ==
    IF \E i \in 1..Len(ExceptClauses) : ExceptClauses[i] \in ExcClasses(exc)
    THEN LET i == CHOOSE k \in 1..Len(ExceptClauses) :
                     /\ ExceptClauses[k] \in ExcClasses(exc)
                     /\ \A j \in 1..(k - 1) : ExceptClauses[j] \notin ExcClasses(exc)
         IN  IF ExceptClauses[i] = "ValueError" /\ ~response_bound
             THEN "UnboundLocalError"
             ELSE "none"
    ELSE exc

\* translate_text: what it returns, the exception it lets escape ("none" when
\* it returns) and the HTTP requests it issued
translate_text(text_to_translate, source_lang, target_lang, http) ==
    IF ~Truthy(text_to_translate)
    THEN [ret |-> None, raised |-> "none", requests |-> <<>>]
    ELSE LET params == [q |-> text_to_translate,
                        langpair |-> <<source_lang, "|", target_lang>>]
             body   == TryBlock(http)
         IN  IF body.exc = "none"
             THEN [ret |-> body.value, raised |-> "none", requests |-> <<params>>]
             ELSE [ret |-> None,
                   raised |-> AfterExcept(body.exc, body.response_bound),
                   requests |-> <<params>>]

\* the provider's translation of q, a text that names q
MachineTranslation(q) == <<"e", "n", ":">> \o q

Hallo == <<"H","a","l","l","o">>

\* translatedText values the provider may send for q
ProviderTexts(q) ==
    {<<>>,
     MachineTranslation(q),
     Hallo \o NMT_MARK,
     MYMEMORY_WARNING,
     Hallo \o NMT_MARK \o <<" ">> \o MYMEMORY_WARNING,
     Hallo \o MT_MARK \o MYMEMORY_WARNING,
     <<" ">> \o Hallo \o <<" ">> \o NMT_MARK \o MT_MARK \o MYMEMORY_WARNING,
     NMT_MARK \o <<" ">> \o MYMEMORY_WARNING}

Http(kind, shape, text) == [kind |-> kind, shape |-> shape, text |-> text]

\* everything the HTTP exchange for q may do
HttpOutcomes(q) ==
    {Http(k, "none", <<>>) :
        k \in {"Timeout", "ConnectionError", "HTTPError", "JSONDecodeError"}}
    \cup {Http("json", s, <<>>) :
        s \in {"not_object", "null_response_data", "no_response_data", "no_translated_text"}}
    \cup {Http("json", "translated", t) : t \in ProviderTexts(q)}

\* the exchanges the page is run against: a failure, and a translation
PageHttpOutcomes(q) ==
    {Http("Timeout", "none", <<>>),
     Http("json", "translated", MachineTranslation(q))}

-----------------------------------------------------------------------------
(* ollama_utils.py *)

\* a cleaned sentence the model may give for the word, a text that names it
ExampleSentence(german_word) == <<"E", "x", " ">> \o german_word

\* get_german_example_sentence_ollama: None (no word, empty reply, failed
\* call), the cleaned reply, or "" when cleaning leaves nothing
GermanExamples(german_word) ==
    IF ~Truthy(german_word) THEN {None}
    ELSE {None, <<>>, ExampleSentence(german_word)}

-----------------------------------------------------------------------------
(* tts_utils.py *)

NoAudio ==
    [audio_bytes |-> None, audio_format |-> None, engine_name |-> None]

WavBytes(text) == <<"RIFF">> \o text

Mp3Bytes(text, lang) == <<"ID3", lang>> \o text

\* ok: whether the model call and the WAV encoding go through
generate_speech_audio_hf(text, ok) ==
    IF ~(hf_libraries_installed /\ hf_model_loaded) \/ ~Truthy(text) THEN NoAudio
    ELSE IF ok
         THEN [audio_bytes |-> WavBytes(text),
               audio_format |-> <<"audio/wav">>,
               engine_name |-> <<"Hugging Face">>]
         ELSE NoAudio

\* ok: whether the gTTS request goes through
generate_speech_audio_gtts(text, lang, ok) ==
    IF ~(gtts_installed /\ Truthy(text)) THEN NoAudio
    ELSE IF ok
         THEN [audio_bytes |-> Mp3Bytes(text, lang),
               audio_format |-> <<"audio/mp3">>,
               engine_name |-> <<"gTTS">>]
         ELSE NoAudio

\* generate_speech_audio without lines 163-164
generate_speech_audio_NoLabel(text, lang, out) ==
    LET use_hf   == TTS_ENGINE = "huggingface" /\ hf_libraries_installed /\ hf_model_loaded
        use_gtts == ~use_hf /\ TTS_ENGINE = "gtts" /\ gtts_installed
        first    == IF use_hf THEN generate_speech_audio_hf(text, out.hf)
                    ELSE IF use_gtts THEN generate_speech_audio_gtts(text, lang, out.gtts[1])
                    ELSE NoAudio
        invoked1 == IF use_hf THEN <<[backend |-> "hf", role |-> "primary", got |-> first.audio_bytes]>>
                    ELSE IF use_gtts THEN <<[backend |-> "gtts", role |-> "primary", got |-> first.audio_bytes]>>
                    ELSE <<>>
        fall     == first.audio_bytes = None /\ gtts_installed
        second   == generate_speech_audio_gtts(text, lang, out.gtts[IF use_gtts THEN 2 ELSE 1])
        labelled == second
        final    == IF fall THEN labelled ELSE first
    IN  [audio_bytes |-> final.audio_bytes,
         audio_format |-> final.audio_format,
         engine_name |-> final.engine_name,
         invoked |-> IF fall
                     THEN Append(invoked1, [backend |-> "gtts", role |-> "fallback", got |-> second.audio_bytes])
                     ELSE invoked1]

\* generate_speech_audio without lines 159-164
generate_speech_audio_PrimaryOnly(text, lang, out) ==
    LET use_hf   == TTS_ENGINE = "huggingface" /\ hf_libraries_installed /\ hf_model_loaded
        use_gtts == ~use_hf /\ TTS_ENGINE = "gtts" /\ gtts_installed
        first    == IF use_hf THEN generate_speech_audio_hf(text, out.hf)
                    ELSE IF use_gtts THEN generate_speech_audio_gtts(text, lang, out.gtts[1])
                    ELSE NoAudio
        invoked1 == IF use_hf THEN <<[backend |-> "hf", role |-> "primary", got |-> first.audio_bytes]>>
                    ELSE IF use_gtts THEN <<[backend |-> "gtts", role |-> "primary", got |-> first.audio_bytes]>>
                    ELSE <<>>
        fall     == FALSE
        second   == generate_speech_audio_gtts(text, lang, out.gtts[IF use_gtts THEN 2 ELSE 1])
        labelled == IF Truthy(second.engine_name)
                    THEN [second EXCEPT !.engine_name = @ \o <<" (Fallback)">>]
                    ELSE second
        final    == IF fall THEN labelled ELSE first
    IN  [audio_bytes |-> final.audio_bytes,
         audio_format |-> final.audio_format,
         engine_name |-> final.engine_name,
         invoked |-> IF fall
                     THEN Append(invoked1, [backend |-> "gtts", role |-> "fallback", got |-> second.audio_bytes])
                     ELSE invoked1]

\* generate_speech_audio on the outcomes of the backend calls (out.hf for the
\* Hugging Face call, out.gtts[i] for the i-th gTTS call): the triple it
\* returns, and the backend calls it made, in order
generate_speech_audio(text, lang, out) ==
    LET use_hf   == TTS_ENGINE = "huggingface" /\ hf_libraries_installed /\ hf_model_loaded
        use_gtts == ~use_hf /\ TTS_ENGINE = "gtts" /\ gtts_installed
        first    == IF use_hf THEN generate_speech_audio_hf(text, out.hf)
                    ELSE IF use_gtts THEN generate_speech_audio_gtts(text, lang, out.gtts[1])
                    ELSE NoAudio
        invoked1 == IF use_hf THEN <<[backend |-> "hf", role |-> "primary", got |-> first.audio_bytes]>>
                    ELSE IF use_gtts THEN <<[backend |-> "gtts", role |-> "primary", got |-> first.audio_bytes]>>
                    ELSE <<>>
        fall     == first.audio_bytes = None /\ gtts_installed
        second   == generate_speech_audio_gtts(text, lang, out.gtts[IF use_gtts THEN 2 ELSE 1])
        labelled == IF Truthy(second.engine_name)
                    THEN [second EXCEPT !.engine_name = @ \o <<" (Fallback)">>]
                    ELSE second
        final    == IF fall THEN labelled ELSE first
    IN  [audio_bytes |-> final.audio_bytes,
         audio_format |-> final.audio_format,
         engine_name |-> final.engine_name,
         invoked |-> IF fall
                     THEN Append(invoked1, [backend |-> "gtts", role |-> "fallback", got |-> second.audio_bytes])
                     ELSE invoked1]

\* is_tts_available (tts_utils.py:174-185)
is_tts_available ==
    IF TTS_ENGINE = "huggingface" THEN hf_libraries_installed /\ hf_model_loaded
    ELSE gtts_installed

\* outcomes of the backend calls of one generate_speech_audio
BackendOutcomes == [hf : BOOLEAN, gtts : [1..2 -> BOOLEAN]]

\* tts_utils.py:12-33 and 63-68: which libraries import, and whether the
\* model loads (it is loaded only when Hugging Face is the configured engine)
ImportTTS ==
    /\ hf_libraries_installed \in BOOLEAN
    /\ gtts_installed \in BOOLEAN
    /\ hf_model_loaded \in
           (IF TTS_ENGINE = "huggingface" /\ hf_libraries_installed
            THEN BOOLEAN ELSE {FALSE})

-----------------------------------------------------------------------------
(* app.py: the session state and its handlers *)

\* "[Translation Failed]" (app.py:91)
WORD_FAILED ==
    <<"[","T","r","a","n","s","l","a","t","i","o","n"," ","F","a","i","l","e","d","]">>

\* "[Example Translation Failed]" (app.py:107)
EXAMPLE_FAILED ==
    <<"[","E","x","a","m","p","l","e"," ","T","r","a","n","s","l","a","t","i","o","n"," ","F","a","i","l","e","d","]">>

\* "[Full Translation Failed]" (app.py:342)
FULL_FAILED ==
    <<"[","F","u","l","l"," ","T","r","a","n","s","l","a","t","i","o","n"," ","F","a","i","l","e","d","]">>

\* "[Failed]" (app.py:309)
FAILED_TAG == <<"[","F","a","i","l","e","d","]">>

\* sentences the user may type
Sentences == SeqsUpTo(Alphabet, MaxSentenceLen)

Range(f) == {f[i] : i \in DOMAIN f}

\* what is kept of the session state a handler starts from
Snapshot ==
    [show_word_buttons |-> show_word_buttons,
     active_translation_word |-> active_translation_word,
     tts_audio_bytes |-> tts_audio_bytes]

\* a handler starts: its name, its arguments, the state it starts from
Enter(handler, args) ==
    /\ last' = handler
    /\ req' = args
    /\ prev' = Snapshot
    /\ calls' = <<>>

Called(fn, arg, ret) == Append(calls, [fn |-> fn, arg |-> arg, ret |-> ret])

\* app.py:46-63
SessionInit ==
    /\ input_sentence = <<>>
    /\ word_translation_result = None
    /\ sentence_translation_result = None
    /\ active_translation_word = None
    /\ german_example_sentence_result = None
    /\ english_example_translation_result = None
    /\ show_word_buttons = FALSE
    /\ tts_audio_bytes = None
    /\ tts_audio_format = None

\* What one run of the script draws from the session state (app.py:169-329):
\* whether the audio player is shown, what the word, example and sentence
\* areas hold, and the TTS buttons offered, each with the arguments it passes
\* to handle_tts_click.
Render ==
    LET tts_globally_available == is_tts_available
        current_sentence == input_sentence
        word_mode  == Truthy(active_translation_word)
        word_shown == /\ word_mode
                      /\ Truthy(word_translation_result)
                      /\ word_translation_result[1] = active_translation_word
    IN  [audio |-> Truthy(tts_audio_bytes) /\ Truthy(tts_audio_format),
         word_buttons |->
            IF show_word_buttons /\ Truthy(current_sentence)
            THEN Range(display_words_list(current_sentence)) ELSE {},
         word_area |->
            IF word_shown
            THEN IF word_translation_result[2] # WORD_FAILED
                 THEN "translation" ELSE "error"
            ELSE IF word_mode /\ ~Truthy(word_translation_result)
                 THEN "processing" ELSE "none",
         example_area |->
            IF ~word_shown THEN "none"
            ELSE IF Truthy(german_example_sentence_result)
                 THEN IF Truthy(english_example_translation_result)
                      THEN "example_translated" ELSE "example_pending"
                 ELSE "warning",
         sentence_area |->
            IF word_mode THEN "none"
            ELSE IF Truthy(sentence_translation_result)
                 THEN IF ~Contains(sentence_translation_result, FAILED_TAG)
                      THEN "content" ELSE "error"
                 ELSE "hint",
         tts_buttons |->
            IF ~tts_globally_available THEN {}
            ELSE (IF Truthy(current_sentence)
                  THEN {<<current_sentence, "de">>} ELSE {})
                 \cup
                 (IF word_shown
                  THEN {<<active_translation_word, "de">>}
                       \cup (IF Truthy(german_example_sentence_result)
                             THEN {<<german_example_sentence_result, "de">>}
                             ELSE {})
                  ELSE {})
                 \cup
                 (IF /\ ~word_mode
                     /\ Truthy(sentence_translation_result)
                     /\ ~Contains(sentence_translation_result, FAILED_TAG)
                  THEN {<<sentence_translation_result, "en">>} ELSE {})]

\* update_input_state without line 156
update_input_state_KeepsWordButtons(widget) ==
    /\ pc = "idle"
    /\ Enter("update_input_state", [widget |-> widget])
    /\ IF input_sentence # widget
       THEN /\ input_sentence' = widget
            /\ word_translation_result' = None
            /\ sentence_translation_result' = None
            /\ active_translation_word' = None
            /\ german_example_sentence_result' = None
            /\ english_example_translation_result' = None
            /\ tts_audio_bytes' = None
            /\ UNCHANGED <<show_word_buttons, tts_audio_format>>
       ELSE UNCHANGED session
    /\ UNCHANGED <<tts_globals, pc, res>>

\* update_input_state without line 152
update_input_state_KeepsSentenceResult(widget) ==
    /\ pc = "idle"
    /\ Enter("update_input_state", [widget |-> widget])
    /\ IF input_sentence # widget
       THEN /\ input_sentence' = widget
            /\ word_translation_result' = None
            /\ active_translation_word' = None
            /\ german_example_sentence_result' = None
            /\ english_example_translation_result' = None
            /\ show_word_buttons' = FALSE
            /\ tts_audio_bytes' = None
            /\ UNCHANGED <<sentence_translation_result, tts_audio_format>>
       ELSE UNCHANGED session
    /\ UNCHANGED <<tts_globals, pc, res>>

\* update_input_state, with the text area holding `widget` (app.py:142-157)
update_input_state(widget) ==
    /\ pc = "idle"
    /\ Enter("update_input_state", [widget |-> widget])
    /\ IF input_sentence # widget
       THEN /\ input_sentence' = widget
            /\ word_translation_result' = None
            /\ sentence_translation_result' = None
            /\ active_translation_word' = None
            /\ german_example_sentence_result' = None
            /\ english_example_translation_result' = None
            /\ show_word_buttons' = FALSE
            /\ tts_audio_bytes' = None
            /\ UNCHANGED tts_audio_format
       ELSE UNCHANGED session
    /\ UNCHANGED <<tts_globals, pc, res>>

\* the toggle_words_btn branch without line 192
toggle_words_btn_KeepsAudio ==
    /\ pc = "idle"
    /\ Truthy(input_sentence)
    /\ Enter("toggle_words_btn", None)
    /\ show_word_buttons' = ~show_word_buttons
    /\ IF ~show_word_buttons'
       THEN /\ active_translation_word' = None
            /\ word_translation_result' = None
            /\ german_example_sentence_result' = None
            /\ english_example_translation_result' = None
       ELSE UNCHANGED <<active_translation_word, word_translation_result,
                        german_example_sentence_result,
                        english_example_translation_result>>
    /\ UNCHANGED <<input_sentence, sentence_translation_result, tts_audio_bytes,
                   tts_audio_format, tts_globals, pc, res>>

\* the toggle_words_btn branch (app.py:181-193)
toggle_words_btn ==
    /\ pc = "idle"
    /\ Truthy(input_sentence)
    /\ Enter("toggle_words_btn", None)
    /\ show_word_buttons' = ~show_word_buttons
    /\ IF ~show_word_buttons'
       THEN /\ active_translation_word' = None
            /\ word_translation_result' = None
            /\ german_example_sentence_result' = None
            /\ english_example_translation_result' = None
            /\ tts_audio_bytes' = None
       ELSE UNCHANGED <<active_translation_word, word_translation_result,
                        german_example_sentence_result,
                        english_example_translation_result, tts_audio_bytes>>
    /\ UNCHANGED <<input_sentence, sentence_translation_result, tts_audio_format,
                   tts_globals, pc, res>>

\* handle_word_click's reset without line 82
handle_word_click_reset_KeepsExample(word) ==
    /\ pc = "idle"
    /\ word \in Render.word_buttons
    /\ Enter("handle_word_click", [word |-> word])
    /\ active_translation_word' = word
    /\ sentence_translation_result' = None
    /\ word_translation_result' = None
    /\ english_example_translation_result' = None
    /\ tts_audio_bytes' = None
    /\ pc' = "word_translate"
    /\ UNCHANGED <<input_sentence, german_example_sentence_result,
                   show_word_buttons, tts_audio_format, tts_globals, res>>

\* handle_word_click's reset without line 80
handle_word_click_reset_KeepsSentenceResult(word) ==
    /\ pc = "idle"
    /\ word \in Render.word_buttons
    /\ Enter("handle_word_click", [word |-> word])
    /\ active_translation_word' = word
    /\ word_translation_result' = None
    /\ german_example_sentence_result' = None
    /\ english_example_translation_result' = None
    /\ tts_audio_bytes' = None
    /\ pc' = "word_translate"
    /\ UNCHANGED <<input_sentence, sentence_translation_result,
                   show_word_buttons, tts_audio_format, tts_globals, res>>

\* handle_word_click(word), app.py:79-84: the button of `word` is clicked and
\* the handler resets the session state
handle_word_click_reset(word) ==
    /\ pc = "idle"
    /\ word \in Render.word_buttons
    /\ Enter("handle_word_click", [word |-> word])
    /\ active_translation_word' = word
    /\ sentence_translation_result' = None
    /\ word_translation_result' = None
    /\ german_example_sentence_result' = None
    /\ english_example_translation_result' = None
    /\ tts_audio_bytes' = None
    /\ pc' = "word_translate"
    /\ UNCHANGED <<input_sentence, show_word_buttons, tts_audio_format,
                   tts_globals, res>>

\* handle_word_click, app.py:87-94
handle_word_click_translate ==
    /\ pc = "word_translate"
    /\ \E http \in PageHttpOutcomes(req.word) :
         LET english_translation == translate_text(req.word, "de", "en", http).ret
         IN  /\ word_translation_result' =
                    <<req.word,
                      IF Truthy(english_translation)
                      THEN english_translation ELSE WORD_FAILED>>
             /\ calls' = Called("translate_text", req.word, english_translation)
    /\ pc' = "word_example"
    /\ UNCHANGED <<input_sentence, sentence_translation_result,
                   active_translation_word, german_example_sentence_result,
                   english_example_translation_result, show_word_buttons,
                   tts_audio_bytes, tts_audio_format, tts_globals,
                   last, prev, req, res>>

\* handle_word_click, app.py:95-97
handle_word_click_example ==
    /\ pc = "word_example"
    /\ \E german_example \in GermanExamples(req.word) :
         /\ german_example_sentence_result' = german_example
         /\ calls' = Called("get_german_example_sentence_ollama", req.word, german_example)
    /\ pc' = "word_example_translate"
    /\ UNCHANGED <<input_sentence, word_translation_result,
                   sentence_translation_result, active_translation_word,
                   english_example_translation_result, show_word_buttons,
                   tts_audio_bytes, tts_audio_format, tts_globals,
                   last, prev, req, res>>

\* handle_word_click translating the example whether or not there is one
handle_word_click_example_translate_Always ==
    /\ pc = "word_example_translate"
    /\ \E http \in PageHttpOutcomes(german_example_sentence_result) :
         LET german_example_to_translate == german_example_sentence_result
             english_example_translation ==
                 IF german_example_to_translate = None THEN None
                 ELSE translate_text(german_example_to_translate, "de", "en", http).ret
         IN  /\ english_example_translation_result' =
                    (IF Truthy(english_example_translation)
                     THEN english_example_translation ELSE EXAMPLE_FAILED)
             /\ calls' = Called("translate_text", german_example_to_translate,
                                english_example_translation)
    /\ pc' = "idle"
    /\ UNCHANGED <<input_sentence, word_translation_result,
                   sentence_translation_result, active_translation_word,
                   german_example_sentence_result, show_word_buttons,
                   tts_audio_bytes, tts_audio_format, tts_globals,
                   last, prev, req, res>>

\* handle_word_click, app.py:99-113
handle_word_click_example_translate ==
    /\ pc = "word_example_translate"
    /\ IF Truthy(german_example_sentence_result)
       THEN \E http \in PageHttpOutcomes(german_example_sentence_result) :
              LET german_example_to_translate == german_example_sentence_result
                  english_example_translation ==
                      translate_text(german_example_to_translate, "de", "en", http).ret
              IN  /\ english_example_translation_result' =
                         (IF Truthy(english_example_translation)
                          THEN english_example_translation ELSE EXAMPLE_FAILED)
                  /\ calls' = Called("translate_text", german_example_to_translate,
                                     english_example_translation)
       ELSE /\ english_example_translation_result' = None
            /\ UNCHANGED calls
    /\ pc' = "idle"
    /\ UNCHANGED <<input_sentence, word_translation_result,
                   sentence_translation_result, active_translation_word,
                   german_example_sentence_result, show_word_buttons,
                   tts_audio_bytes, tts_audio_format, tts_globals,
                   last, prev, req, res>>

\* handle_tts_click's entry without lines 127-128
handle_tts_click_reset_KeepsAudio(text_to_speak, lang) ==
    /\ pc = "idle"
    /\ <<text_to_speak, lang>> \in Render.tts_buttons
    /\ Enter("handle_tts_click", [text_to_speak |-> text_to_speak, lang |-> lang])
    /\ IF ~Truthy(text_to_speak)
       THEN UNCHANGED pc
       ELSE pc' = "tts_generate"
    /\ UNCHANGED <<input_sentence, word_translation_result,
                   sentence_translation_result, active_translation_word,
                   german_example_sentence_result,
                   english_example_translation_result, show_word_buttons,
                   tts_audio_bytes, tts_audio_format, tts_globals, res>>

\* handle_tts_click(text_to_speak, lang), app.py:124-128: a TTS button is
\* clicked and the handler drops the stored audio
handle_tts_click_reset(text_to_speak, lang) ==
    /\ pc = "idle"
    /\ <<text_to_speak, lang>> \in Render.tts_buttons
    /\ Enter("handle_tts_click", [text_to_speak |-> text_to_speak, lang |-> lang])
    /\ IF ~Truthy(text_to_speak)
       THEN UNCHANGED <<tts_audio_bytes, tts_audio_format, pc>>
       ELSE /\ tts_audio_bytes' = None
            /\ tts_audio_format' = None
            /\ pc' = "tts_generate"
    /\ UNCHANGED <<input_sentence, word_translation_result,
                   sentence_translation_result, active_translation_word,
                   german_example_sentence_result,
                   english_example_translation_result, show_word_buttons,
                   tts_globals, res>>

\* handle_tts_click, app.py:129-139
handle_tts_click_generate ==
    /\ pc = "tts_generate"
    /\ \E out \in BackendOutcomes :
         LET got == generate_speech_audio(req.text_to_speak, req.lang, out)
         IN  /\ IF Truthy(got.audio_bytes) /\ Truthy(got.audio_format)
                THEN /\ tts_audio_bytes' = got.audio_bytes
                     /\ tts_audio_format' = got.audio_format
                ELSE UNCHANGED <<tts_audio_bytes, tts_audio_format>>
             /\ calls' = Called("generate_speech_audio", req.text_to_speak,
                                got.audio_bytes)
    /\ pc' = "idle"
    /\ UNCHANGED <<input_sentence, word_translation_result,
                   sentence_translation_result, active_translation_word,
                   german_example_sentence_result,
                   english_example_translation_result, show_word_buttons,
                   tts_globals, last, prev, req, res>>

\* the full_translate_btn branch, app.py:331-337
full_translate_btn_reset ==
    /\ pc = "idle"
    /\ Truthy(input_sentence)
    /\ Enter("full_translate_btn", None)
    /\ active_translation_word' = None
    /\ word_translation_result' = None
    /\ german_example_sentence_result' = None
    /\ english_example_translation_result' = None
    /\ tts_audio_bytes' = None
    /\ pc' = "full_translate"
    /\ UNCHANGED <<input_sentence, sentence_translation_result,
                   show_word_buttons, tts_audio_format, tts_globals, res>>

\* the full_translate_btn branch storing what translate_text returned as it is
full_translate_btn_translate_NoMarker ==
    /\ pc = "full_translate"
    /\ \E http \in PageHttpOutcomes(input_sentence) :
         LET current_sentence == input_sentence
             full_translation == translate_text(current_sentence, "de", "en", http).ret
         IN  /\ sentence_translation_result' = full_translation
             /\ calls' = Called("translate_text", current_sentence, full_translation)
    /\ pc' = "idle"
    /\ UNCHANGED <<input_sentence, word_translation_result,
                   active_translation_word, german_example_sentence_result,
                   english_example_translation_result, show_word_buttons,
                   tts_audio_bytes, tts_audio_format, tts_globals,
                   last, prev, req, res>>

\* the full_translate_btn branch, app.py:339-346
full_translate_btn_translate ==
    /\ pc = "full_translate"
    /\ \E http \in PageHttpOutcomes(input_sentence) :
         LET current_sentence == input_sentence
             full_translation == translate_text(current_sentence, "de", "en", http).ret
         IN  /\ sentence_translation_result' =
                    (IF Truthy(full_translation) THEN full_translation ELSE FULL_FAILED)
             /\ calls' = Called("translate_text", current_sentence, full_translation)
    /\ pc' = "idle"
    /\ UNCHANGED <<input_sentence, word_translation_result,
                   active_translation_word, german_example_sentence_result,
                   english_example_translation_result, show_word_buttons,
                   tts_audio_bytes, tts_audio_format, tts_globals,
                   last, prev, req, res>>

\* the page as configured (tts_utils.py:8), once its modules are imported
Init ==
    /\ SessionInit
    /\ TTS_ENGINE = "huggingface"
    /\ ImportTTS
    /\ pc = "idle"
    /\ last = "start"
    /\ prev = Snapshot
    /\ calls = <<>>
    /\ req = None
    /\ res = None

\* The text area calls update_input_state when its value changes, and its
\* value is input_sentence (app.py:171-178); the buttons are those the last
\* run of the script drew.
Next ==
    \/ \E widget \in Sentences \ {input_sentence} : update_input_state(widget)
    \/ toggle_words_btn
    \/ \E word \in Render.word_buttons : handle_word_click_reset(word)
    \/ handle_word_click_translate
    \/ handle_word_click_example
    \/ handle_word_click_example_translate
    \/ \E button \in Render.tts_buttons : handle_tts_click_reset(button[1], button[2])
    \/ handle_tts_click_generate
    \/ full_translate_btn_reset
    \/ full_translate_btn_translate

Spec == Init /\ [][Next]_vars

-----------------------------------------------------------------------------
(* translate_text called on its own *)

\* texts handed to translate_text
Texts == SeqsUpTo(Alphabet, MaxSentenceLen)

\* translate_text reads nothing of tts_utils: one import outcome is enough
InitTranslate ==
    /\ SessionInit
    /\ TTS_ENGINE = "huggingface"
    /\ ImportTTS
    /\ hf_model_loaded /\ gtts_installed
    /\ pc = "call"
    /\ last = "translate_text"
    /\ \E text \in Texts : \E http \in HttpOutcomes(text) :
           req = [text_to_translate |-> text, http |-> http]
    /\ prev = Snapshot
    /\ calls = <<>>
    /\ res = None

call_translate_text ==
    /\ pc = "call"
    /\ res' = translate_text(req.text_to_translate, "de", "en", req.http)
    /\ pc' = "returned"
    /\ UNCHANGED <<session, tts_globals, last, req, prev, calls>>

NextTranslate == call_translate_text

SpecTranslate == InitTranslate /\ [][NextTranslate]_vars

-----------------------------------------------------------------------------
(* generate_speech_audio called on its own, under either configured engine *)

InitSpeech ==
    /\ SessionInit
    /\ TTS_ENGINE \in {"huggingface", "gtts"}
    /\ ImportTTS
    /\ pc = "call"
    /\ last = "generate_speech_audio"
    /\ \E text \in Texts : \E lang \in {"de", "en"} : \E out \in BackendOutcomes :
           req = [text |-> text, lang |-> lang, out |-> out]
    /\ prev = Snapshot
    /\ calls = <<>>
    /\ res = None

call_generate_speech_audio ==
    /\ pc = "call"
    /\ res' = generate_speech_audio(req.text, req.lang, req.out)
    /\ pc' = "returned"
    /\ UNCHANGED <<session, tts_globals, last, req, prev, calls>>

NextSpeech == call_generate_speech_audio

SpecSpeech == InitSpeech /\ [][NextSpeech]_vars

-----------------------------------------------------------------------------
(* the word list built on its own: app.py:210-218 *)

\* characters of the tokenized sentences: letters in both cases, a blank
\* and a full stop
TokenAlphabet == {"a", "A", "b", " ", "."}

DerHundUndDerHund ==
    <<"D","e","r"," ","H","u","n","d"," ","u","n","d"," ",
      "d","e","r"," ","H","u","n","d">>

TokenizedSentences ==
    SeqsUpTo(TokenAlphabet, MaxTokenizedLen) \cup {DerHundUndDerHund}

InitWords ==
    /\ SessionInit
    /\ TTS_ENGINE = "huggingface"
    /\ ImportTTS
    /\ hf_model_loaded /\ gtts_installed
    /\ pc = "call"
    /\ last = "display_words_list"
    /\ \E sentence \in TokenizedSentences : req = [sentence |-> sentence]
    /\ prev = Snapshot
    /\ calls = <<>>
    /\ res = None

call_display_words_list ==
    /\ pc = "call"
    /\ res' = [parts |-> split_sentence_with_delimiters(req.sentence),
               words |-> display_words_list(req.sentence)]
    /\ pc' = "returned"
    /\ UNCHANGED <<session, tts_globals, last, req, prev, calls>>

NextWords == call_display_words_list

SpecWords == InitWords /\ [][NextWords]_vars

-----------------------------------------------------------------------------
(* Properties of the page *)

\* the calls of fn among the client calls of the handler that ran last
CallsOf(fn) == SelectSeq(calls, LAMBDA c : c.fn = fn)

\* C1: in every state, the states between the steps of a word click
\* included, the stored word translation, German example and example
\* translation were computed for the active word: the word translation names
\* the active word, the example is one generated for it, the example
\* translation is that of the stored example, and each step of a word click
\* starts with the results of the later steps absent.
C1_ResultsBelongToActiveWord ==
    /\ word_translation_result # None =>
          /\ word_translation_result[1] = active_translation_word
          /\ word_translation_result[2] \in
                 {MachineTranslation(active_translation_word), WORD_FAILED}
    /\ german_example_sentence_result \in
           {None, <<>>, ExampleSentence(active_translation_word)}
    /\ english_example_translation_result # None =>
          /\ Truthy(german_example_sentence_result)
          /\ english_example_translation_result \in
                 {MachineTranslation(german_example_sentence_result), EXAMPLE_FAILED}
    /\ active_translation_word = None =>
          /\ word_translation_result = None
          /\ german_example_sentence_result = None
          /\ english_example_translation_result = None
    /\ pc = "word_translate" =>
          /\ active_translation_word = req.word
          /\ word_translation_result = None
          /\ german_example_sentence_result = None
          /\ english_example_translation_result = None
    /\ pc = "word_example" =>
          /\ german_example_sentence_result = None
          /\ english_example_translation_result = None
    /\ pc = "word_example_translate" => english_example_translation_result = None

\* a word is clicked while another word was active, and its own example is stored
C1_Witness ==
    /\ last = "handle_word_click"
    /\ pc = "word_example_translate"
    /\ prev.active_translation_word # None
    /\ prev.active_translation_word # active_translation_word
    /\ Truthy(german_example_sentence_result)

\* C2, as stated: update_input_state with a new sentence leaves
\* show_word_buttons as it was, and only the toggle-words action hides the panel.
C2_InputChangeKeepsWordButtons ==
    /\ last = "update_input_state" => show_word_buttons = prev.show_word_buttons
    /\ (prev.show_word_buttons /\ ~show_word_buttons) => last = "toggle_words_btn"

\* C2, amended: update_input_state with a new sentence hides the word panel
\* (show_word_buttons is False afterwards); the panel is hidden only by the
\* toggle-words action and by update_input_state, and no other handler
\* changes the flag.
C2_InputChangeHidesWordButtons ==
    /\ last = "update_input_state" => ~show_word_buttons
    /\ (prev.show_word_buttons /\ ~show_word_buttons) =>
           last \in {"toggle_words_btn", "update_input_state"}
    /\ last \notin {"toggle_words_btn", "update_input_state"} =>
           show_word_buttons = prev.show_word_buttons

\* the sentence is changed while the word panel is shown
C2_Witness ==
    /\ last = "update_input_state"
    /\ prev.show_word_buttons
    /\ ~show_word_buttons

\* C3: after update_input_state with a new sentence, whatever the state
\* before, the active word, the word translation, both example results, the
\* sentence translation and the audio bytes are absent, and the page shows
\* no audio player and no result.
C3_InputChangeClearsResults ==
    last = "update_input_state" =>
        /\ input_sentence = req.widget
        /\ active_translation_word = None
        /\ word_translation_result = None
        /\ german_example_sentence_result = None
        /\ english_example_translation_result = None
        /\ sentence_translation_result = None
        /\ tts_audio_bytes = None
        /\ ~Render.audio
        /\ Render.word_area = "none"
        /\ Render.example_area = "none"
        /\ Render.sentence_area = "hint"
        /\ \A button \in Render.tts_buttons : button[1] = input_sentence

\* the sentence is changed while a word was active and audio was stored
C3_Witness ==
    /\ last = "update_input_state"
    /\ prev.active_translation_word # None
    /\ prev.tts_audio_bytes # None
    /\ Truthy(input_sentence)

\* C4: in a word click the word translation does not depend on the example
\* step: once stored it is the pair of the clicked word and what the first
\* translate_text call returned (or the failure marker), whatever the example
\* step gives; with no German example the example translation stays absent
\* and translate_text was called once; the second call is made only for an
\* existing example, on that example.
C4_ExampleFailureLeavesWordTranslation ==
    (last = "handle_word_click" /\ pc \in {"word_example", "word_example_translate", "idle"}) =>
        LET translations == CallsOf("translate_text")
            examples == CallsOf("get_german_example_sentence_ollama")
        IN  /\ Len(translations) >= 1
            /\ translations[1].arg = req.word
            /\ word_translation_result =
                   <<req.word,
                     IF Truthy(translations[1].ret)
                     THEN translations[1].ret ELSE WORD_FAILED>>
            /\ pc = "idle" =>
                  /\ Len(examples) = 1
                  /\ german_example_sentence_result = examples[1].ret
                  /\ IF Truthy(german_example_sentence_result)
                     THEN /\ Len(translations) = 2
                          /\ translations[2].arg = german_example_sentence_result
                          /\ english_example_translation_result =
                                 (IF Truthy(translations[2].ret)
                                  THEN translations[2].ret ELSE EXAMPLE_FAILED)
                     ELSE /\ Len(translations) = 1
                          /\ english_example_translation_result = None

\* a word click ends with no example and the word's translation on display
C4_Witness ==
    /\ last = "handle_word_click"
    /\ pc = "idle"
    /\ german_example_sentence_result = None
    /\ Render.word_area = "translation"
    /\ Render.example_area = "warning"

\* C5: the active word and the sentence translation are never both present,
\* and the page shows the word-level results exactly when a word is active
\* and the sentence translation only when none is.
C5_OneResultSet ==
    /\ ~(active_translation_word # None /\ sentence_translation_result # None)
    /\ Render.word_area # "none" => Render.sentence_area = "none"
    /\ Render.sentence_area \in {"content", "error"} =>
          /\ ~Truthy(active_translation_word)
          /\ Render.word_area = "none"
          /\ Render.example_area = "none"
    /\ Truthy(active_translation_word) => Render.sentence_area = "none"

\* the sentence is translated while a word was active
C5_Witness ==
    /\ last = "full_translate_btn"
    /\ pc = "idle"
    /\ prev.active_translation_word # None
    /\ sentence_translation_result # None
    /\ active_translation_word = None

\* C6: when the full-sentence translation fails, the sentence area shows
\* the failure message, and the stored failure marker is not shown as a
\* translation with a TTS button of its own.
C6_FailedSentenceShowsError ==
    (/\ last = "full_translate_btn"
     /\ pc = "idle"
     /\ ~Truthy(calls[1].ret)) =>
        /\ Render.sentence_area = "error"
        /\ <<sentence_translation_result, "en">> \notin Render.tts_buttons

\* C7: the full-sentence translation first clears the active word, the word
\* translation, both example results and the audio bytes, then makes one
\* translate_text call on the sentence and stores what it returned, or the
\* failure marker when it returned nothing; the field is not None afterwards.
C7_FullTranslateStoresResultOrMarker ==
    last = "full_translate_btn" =>
        /\ active_translation_word = None
        /\ word_translation_result = None
        /\ german_example_sentence_result = None
        /\ english_example_translation_result = None
        /\ tts_audio_bytes = None
        /\ ~Render.audio
        /\ pc = "full_translate" => calls = <<>>
        /\ pc = "idle" =>
              /\ Len(calls) = 1
              /\ calls[1].fn = "translate_text"
              /\ calls[1].arg = input_sentence
              /\ sentence_translation_result # None
              /\ sentence_translation_result =
                     (IF Truthy(calls[1].ret) THEN calls[1].ret ELSE FULL_FAILED)

\* a failed full-sentence translation while a word was active and audio stored
C7_Witness ==
    /\ last = "full_translate_btn"
    /\ pc = "idle"
    /\ prev.active_translation_word # None
    /\ prev.tts_audio_bytes # None
    /\ sentence_translation_result = FULL_FAILED

-----------------------------------------------------------------------------
(* Properties of generate_speech_audio *)

PrimaryCalls == SelectSeq(res.invoked, LAMBDA c : c.role = "primary")

FallbackCalls == SelectSeq(res.invoked, LAMBDA c : c.role = "fallback")

\* the configured primary backend is ready
PrimaryAvailable ==
    \/ TTS_ENGINE = "huggingface" /\ hf_libraries_installed /\ hf_model_loaded
    \/ TTS_ENGINE = "gtts" /\ gtts_installed

\* the primary backend was called and returned bytes
PrimaryProduced ==
    \E i \in 1..Len(PrimaryCalls) : PrimaryCalls[i].got # None

\* C8: generate_speech_audio calls the secondary backend (gTTS) whenever the
\* primary is unavailable, throws or returns nothing and gTTS is installed;
\* audio the secondary produced then is returned with " (Fallback)" ending
\* its engine name; audio the primary produced is returned under the
\* primary's own name, and the secondary is not called.
C8_FallbackIsUsedAndLabelled ==
    pc = "returned" =>
        /\ Len(PrimaryCalls) = (IF PrimaryAvailable THEN 1 ELSE 0)
        /\ Len(FallbackCalls) <= 1
        /\ (~PrimaryProduced /\ gtts_installed) =>
              /\ Len(FallbackCalls) = 1
              /\ FallbackCalls[1].backend = "gtts"
              /\ res.audio_bytes = FallbackCalls[1].got
              /\ res.audio_bytes # None =>
                    /\ res.engine_name = <<"gTTS", " (Fallback)">>
                    /\ res.audio_format = <<"audio/mp3">>
        /\ PrimaryProduced =>
              /\ FallbackCalls = <<>>
              /\ res.audio_bytes = PrimaryCalls[1].got
              /\ res.engine_name \in {<<"Hugging Face">>, <<"gTTS">>}
              /\ res.engine_name = <<"Hugging Face">> <=> TTS_ENGINE = "huggingface"
        /\ res.audio_bytes = None => res.engine_name = None

\* the Hugging Face call throws and gTTS produces the audio
C8_Witness ==
    /\ pc = "returned"
    /\ TTS_ENGINE = "huggingface"
    /\ Len(PrimaryCalls) = 1
    /\ ~PrimaryProduced
    /\ Truthy(req.text)
    /\ res.engine_name = <<"gTTS", " (Fallback)">>

\* the backend is ready to be called
BackendAvailable(backend) ==
    IF backend = "hf" THEN hf_libraries_installed /\ hf_model_loaded
    ELSE gtts_installed

\* the backend succeeds on the text whenever it is asked
WouldSucceed(backend) ==
    /\ Truthy(req.text)
    /\ IF backend = "hf" THEN req.out.hf
       ELSE \A i \in 1..2 : req.out.gtts[i]

\* C9: under either configured primary, generate_speech_audio returns no
\* audio only if every backend is unavailable or failed: an available
\* backend was called and each of its calls returned nothing; so with a
\* backend that is available and succeeds on the text, audio is returned.
C9_AbsentOnlyIfAllBackendsFail ==
    pc = "returned" =>
        /\ res.audio_bytes = None =>
              \A backend \in {"hf", "gtts"} :
                  BackendAvailable(backend) =>
                      /\ \E i \in 1..Len(res.invoked) : res.invoked[i].backend = backend
                      /\ \A i \in 1..Len(res.invoked) :
                            res.invoked[i].backend = backend => res.invoked[i].got = None
        /\ (\E backend \in {"hf", "gtts"} :
                BackendAvailable(backend) /\ WouldSucceed(backend)) =>
              Truthy(res.audio_bytes) /\ Truthy(res.audio_format)

\* both backends are ready and both fail on a text
C9_Witness ==
    /\ pc = "returned"
    /\ BackendAvailable("hf")
    /\ BackendAvailable("gtts")
    /\ Truthy(req.text)
    /\ res.audio_bytes = None
    /\ Len(res.invoked) = 2

-----------------------------------------------------------------------------
(* Properties of translate_text *)

\* C10: translate_text lets no exception escape; on empty input it returns
\* None and issues no HTTP request; on a timeout, a network or HTTP error, a
\* response that is not JSON, and a response without the translated-text
\* field, it returns None.
C10_TranslateTextReturnsNoneOnFailure ==
    pc = "returned" =>
        /\ res.raised = "none"
        /\ ~Truthy(req.text_to_translate) =>
              res.ret = None /\ res.requests = <<>>
        /\ Truthy(req.text_to_translate) =>
              /\ Len(res.requests) = 1
              /\ res.requests[1].q = req.text_to_translate
        /\ req.http.kind \in {"Timeout", "ConnectionError", "HTTPError", "JSONDecodeError"} =>
              res.ret = None
        /\ (req.http.kind = "json" /\ req.http.shape # "translated") => res.ret = None
        /\ (req.http.kind = "json" /\ ~Truthy(req.http.text)) => res.ret = None

\* a response whose responseData is null: the lookup raises, and None comes back
C10_Witness ==
    /\ pc = "returned"
    /\ Truthy(req.text_to_translate)
    /\ req.http.kind = "json"
    /\ req.http.shape = "null_response_data"
    /\ res.ret = None
    /\ res.raised = "none"

\* C11, as stated: a response whose translated text is "Hallo NMT" makes
\* translate_text return "Hallo".
C11_HalloNMTGivesHallo ==
    (/\ pc = "returned"
     /\ Truthy(req.text_to_translate)
     /\ req.http.kind = "json"
     /\ req.http.shape = "translated"
     /\ req.http.text = Hallo \o NMT_MARK) =>
        res.ret = Hallo

\* C11, amended: translate_text cuts the translated text at its first " NMT"
\* (then at the first " MT ", then trims it) only when the text contains
\* "MYMEMORY WARNING": "Hallo NMT MYMEMORY WARNING" and "Hallo MT MYMEMORY
\* WARNING" give "Hallo", and what is returned then holds neither mark and
\* no outer blank; a text without the warning, such as "Hallo NMT", is
\* returned as it is.
C11_SuffixStrippedOnlyWithWarning ==
    (/\ pc = "returned"
     /\ Truthy(req.text_to_translate)
     /\ req.http.kind = "json"
     /\ req.http.shape = "translated"
     /\ Truthy(req.http.text)) =>
        LET text == req.http.text
        IN  /\ res.raised = "none"
            /\ text = Hallo \o NMT_MARK => res.ret = Hallo \o NMT_MARK
            /\ text = Hallo \o NMT_MARK \o <<" ">> \o MYMEMORY_WARNING => res.ret = Hallo
            /\ text = Hallo \o MT_MARK \o MYMEMORY_WARNING => res.ret = Hallo
            /\ ~Contains(text, MYMEMORY_WARNING) => res.ret = text
            /\ Contains(text, MYMEMORY_WARNING) =>
                  /\ ~Contains(res.ret, NMT_MARK)
                  /\ ~Contains(res.ret, MT_MARK)
                  /\ Contains(text, res.ret)
                  /\ res.ret # <<>> =>
                        ~IsSpace(res.ret[1]) /\ ~IsSpace(res.ret[Len(res.ret)])

\* the warning follows " NMT" and the text before the mark comes back
C11_Witness ==
    /\ pc = "returned"
    /\ Truthy(req.text_to_translate)
    /\ req.http.kind = "json"
    /\ req.http.text = Hallo \o NMT_MARK \o <<" ">> \o MYMEMORY_WARNING
    /\ res.ret = Hallo

-----------------------------------------------------------------------------
(* Properties of the word list *)

\* "".join(parts)
RECURSIVE Concat(_)
Concat(parts) == IF parts = <<>> THEN <<>> ELSE Head(parts) \o Concat(Tail(parts))

\* a non-empty run of word characters
IsWordToken(part) == part # <<>> /\ \A i \in 1..Len(part) : IsWordChar(part[i])

\* a non-empty run of non-word characters
IsDelimiterToken(part) == part # <<>> /\ \A i \in 1..Len(part) : ~IsWordChar(part[i])

\* C12: the pieces of split_sentence_with_delimiters(S), joined in order,
\* are S; none is empty; each is a run of word characters or a run of
\* non-word characters, and neighbours are of different kinds (so the runs
\* are maximal); the empty sentence gives no piece.
C12_SplitIsLosslessAndAlternates ==
    pc = "returned" =>
        LET S     == req.sentence
            parts == res.parts
        IN  /\ Concat(parts) = S
            /\ \A i \in 1..Len(parts) : parts[i] # <<>>
            /\ \A i \in 1..Len(parts) :
                  IsWordToken(parts[i]) \/ IsDelimiterToken(parts[i])
            /\ \A i \in 1..(Len(parts) - 1) :
                  IsWordToken(parts[i]) # IsWordToken(parts[i + 1])
            /\ S = <<>> => parts = <<>>

\* a sentence that starts and ends with a delimiter and holds two words
C12_Witness ==
    /\ pc = "returned"
    /\ Len(res.parts) = 5
    /\ IsDelimiterToken(res.parts[1])
    /\ Len(res.parts[2]) = 1

\* where the maximal runs of word characters of S start
WordStarts(S) ==
    {i \in 1..Len(S) : IsWordChar(S[i]) /\ (i = 1 \/ ~IsWordChar(S[i - 1]))}

\* the maximal run of word characters of S that starts at i
WordAt(S, i) ==
    LET j == CHOOSE m \in i..Len(S) :
                 /\ \A n \in i..m : IsWordChar(S[n])
                 /\ (m = Len(S) \/ ~IsWordChar(S[m + 1]))
    IN  SubSeq(S, i, j)

\* equal ignoring case, as lower() compares
EqualIgnoringCase(v, w) == Lower(v) = Lower(w)

\* where S first holds w, in any casing, as a word
FirstStart(S, w) ==
    CHOOSE i \in WordStarts(S) :
        /\ EqualIgnoringCase(WordAt(S, i), w)
        /\ \A j \in WordStarts(S) : EqualIgnoringCase(WordAt(S, j), w) => i <= j

\* C13: the word list holds no two words equal ignoring case; every word
\* of the sentence equals a listed word ignoring case; each listed word is
\* written as at its first occurrence in the sentence, and the list is in
\* the order of these first occurrences; "Der Hund und der Hund" gives
\* Der, Hund, und.
C13_WordListDedupesIgnoringCase ==
    pc = "returned" =>
        LET S     == req.sentence
            words == res.words
        IN  /\ \A k, l \in 1..Len(words) :
                  k # l => ~EqualIgnoringCase(words[k], words[l])
            /\ \A i \in WordStarts(S) : \E k \in 1..Len(words) :
                  EqualIgnoringCase(words[k], WordAt(S, i))
            /\ \A k \in 1..Len(words) :
                  /\ \E i \in WordStarts(S) : EqualIgnoringCase(WordAt(S, i), words[k])
                  /\ WordAt(S, FirstStart(S, words[k])) = words[k]
            /\ \A k, l \in 1..Len(words) :
                  k < l => FirstStart(S, words[k]) < FirstStart(S, words[l])
            /\ S = DerHundUndDerHund =>
                  words = <<<<"D","e","r">>, <<"H","u","n","d">>, <<"u","n","d">>>>

\* a word comes back in another casing and is listed once, as first written
C13_Witness ==
    /\ pc = "returned"
    /\ req.sentence = <<"A", " ", "b", " ", "a">>
    /\ res.words = <<<<"A">>, <<"b">>>>

-----------------------------------------------------------------------------
(* Properties of the audio and of the words panel *)

\* C14: handle_tts_click with a non-empty text first drops the stored audio
\* and only then calls the synthesis, once and with that text; when it ends,
\* the stored bytes are those the call returned, with a format, if it
\* returned any, and bytes and format are absent if it returned none, so
\* that no earlier audio is left; no step of the handler changes a field
\* other than the audio bytes and format.
C14_TtsClickReplacesAudio ==
    [][(last' = "handle_tts_click" /\ Truthy(req'.text_to_speak)) =>
          /\ UNCHANGED <<input_sentence, word_translation_result,
                         sentence_translation_result, active_translation_word,
                         german_example_sentence_result,
                         english_example_translation_result, show_word_buttons>>
          /\ pc = "idle" =>
                /\ pc' = "tts_generate"
                /\ calls' = <<>>
                /\ tts_audio_bytes' = None
                /\ tts_audio_format' = None
          /\ pc = "tts_generate" =>
                /\ pc' = "idle"
                /\ Len(calls') = 1
                /\ calls'[1].fn = "generate_speech_audio"
                /\ calls'[1].arg = req.text_to_speak
                /\ IF Truthy(calls'[1].ret)
                   THEN /\ tts_audio_bytes' = calls'[1].ret
                        /\ tts_audio_format' # None
                   ELSE /\ tts_audio_bytes' = None
                        /\ tts_audio_format' = None]_vars

\* audio was stored, a later request failed, and no audio is left
C14_Witness ==
    /\ last = "handle_tts_click"
    /\ pc = "idle"
    /\ Truthy(req.text_to_speak)
    /\ prev.tts_audio_bytes # None
    /\ Len(calls) = 1
    /\ calls[1].ret = None
    /\ tts_audio_bytes = None

\* C15: every run of the toggle_words_btn branch negates show_word_buttons;
\* when the panel is hidden by it, the active word, the word translation,
\* the German and the English example and the audio bytes are absent after
\* it and no audio is played; when the panel is shown by it, no other
\* session field changes; the sentence translation (and the sentence) is the
\* same after it in both directions.
C15_ToggleFlipsAndClearsOnHide ==
    [][(pc = "idle" /\ last' = "toggle_words_btn") =>
          /\ show_word_buttons' = ~show_word_buttons
          /\ UNCHANGED <<sentence_translation_result, input_sentence>>
          /\ IF show_word_buttons
             THEN /\ active_translation_word' = None
                  /\ word_translation_result' = None
                  /\ german_example_sentence_result' = None
                  /\ english_example_translation_result' = None
                  /\ tts_audio_bytes' = None
                  /\ ~Render'.audio
             ELSE UNCHANGED <<active_translation_word, word_translation_result,
                              german_example_sentence_result,
                              english_example_translation_result,
                              tts_audio_bytes, tts_audio_format>>]_vars

\* the panel is hidden while a word, its results and audio were stored
C15_Witness ==
    /\ last = "toggle_words_btn"
    /\ pc = "idle"
    /\ prev.show_word_buttons
    /\ ~show_word_buttons
    /\ prev.active_translation_word # None
    /\ prev.tts_audio_bytes # None
    /\ active_translation_word = None
    /\ tts_audio_bytes = None

\* C16: is_tts_available is true whenever a backend, primary or fallback,
\* is ready, and so whenever generate_speech_audio returns audio; it is
\* false only when no backend is ready.
C16_AvailableIffSomeBackendReady ==
    /\ (BackendAvailable("hf") \/ BackendAvailable("gtts")) => is_tts_available
    /\ (pc = "returned" /\ Truthy(res.audio_bytes)) => is_tts_available
    /\ ~is_tts_available => (~BackendAvailable("hf") /\ ~BackendAvailable("gtts"))

\* C17: in every state of the session the audio bytes and the audio format
\* are both present or both absent.
C17_AudioBytesAndFormatTogether ==
    (tts_audio_bytes = None) <=> (tts_audio_format = None)

====
